---- MODULE Spec2Model ----
(***************************************************************************)
(* State-machine model of the webhook variant of the Twitch bot            *)
(* (src/twitchbot/http.py, src/twitchbot/bot.py).                          *)
(*                                                                         *)
(* The components are independent objects of the program, so each has its  *)
(* own specification over the shared variable tuple:                       *)
(*   SpecPost    inbound webhook POSTs (signature check, dedup cache)      *)
(*   SpecSub     subscribe / cancel calls and the inbound GET handler      *)
(*   SpecBot     the subscription refresh loop of the bot                  *)
(*   SpecToken   the OAuth token session                                   *)
(*   SpecBucket  the rate bucket used by one caller                        *)
(***************************************************************************)
EXTENDS Integers, Sequences, FiniteSets, TLC

VARIABLES
    \* ---- TwitchWebhookServer, inbound POST ----
    notification_ids,   \* server._notification_ids: deque(maxlen=50), oldest first
    post_pc,            \* position of the POST handler: "idle" | "callback" | "done"
    request,            \* the POST being (or last) handled: [id, body, sig]
    status,             \* HTTP status answered to it (0 while none)
    cbCount,            \* invocations of server._callback for this POST
    log,                \* history: ids for which the callback was invoked, in order
    \* ---- TwitchWebhookServer, subscribe / cancel / inbound GET ----
    pending_subscriptions,  \* server._pending_subscriptions: uri -> Event ("absent" | "unset" | "set")
    pending_cancellation,   \* server._pending_cancellation:  uri -> Event
    call,               \* the subscribe(*topics) / cancel(*topics) call: [kind, topics, pc]
    task_pc,            \* per topic, position of its _subscribe / _cancel coroutine
    task_result,        \* per topic, the value that coroutine returned (success)
    warned,             \* << >>, or <<S>> once the call logged "... failed: S"
    last_get,           \* the answer to the last inbound GET: [status, body]
    delivered,          \* history: per topic, a matching challenge GET was handled after
                        \* the hub request was sent and before the 10 s wait expired
    \* ---- Bot._update_subscription ----
    id_by_login,        \* bot._id_by_login: login -> id (0 while not cached)
    bot_pc,             \* position of the loop
    listed,             \* the topic URLs list_subscriptions returned in this iteration
    issued,             \* << >>, or <<S>>: subscribe was called with UserFollows(to_id=c), c in S
    bot_error,          \* the exception that ended the task ("none" while it runs)
    \* ---- TokenSession ----
    token,              \* session._token (0 for None)
    expires_at,         \* session._expires_at (None, or a time)
    tok_clock,          \* datetime.utcnow()
    tok_pc,             \* position of get_token: "idle" | "requesting"
    tok_now,            \* the local now of the running (or last) get_token call
    tok_reqs,           \* token requests sent by that call
    tok_ret,            \* what that call returned (0 while running, -1 if it raised)
    tok_data,           \* the token_data of the last successful token request
    tok_before,         \* history: the cached token and expiry when that call started
    \* ---- RateBucket ----
    rate,               \* bucket._rate
    per,                \* bucket._per, in seconds
    tokens,             \* bucket._tokens
    reset_date,         \* bucket._reset_date (None, or a time in ticks)
    b_clock,            \* datetime.utcnow(), in ticks of 1/Res second
    b_pc,               \* per caller, position in consume: "idle" | "sleeping"
    wake_at,            \* per caller, the time its asyncio.sleep(wait) is over
    window_calls,       \* history: consume calls that returned since reset_date was last set
    slept               \* history: per caller, its running (or last) consume call slept

VARIABLES
    \* ---- Follows (polling event of the hand-rolled client) ----
    follows_id,         \* Follows.id (0 for None)
    follows,            \* Follows.follows: the cached follower list
    fw_pc,              \* position of Follows.listen: "get_id" | "get_follows" | "sleep"
    fw_resp,            \* what _get_follows returned to the last poll: [ok, list]
                        \* (ok is FALSE for None)
    fw_sent,            \* the new_follows of each send_message call of this cycle
    announced,          \* history: the entries of every announcement sent so far
    \* ---- IRCClient: connection and read loop ----
    conn,               \* the connection self.reader / self.writer belong to (1, 2, ...)
    out,                \* the first MaxOut lines written to self.writer
    listen_pc,          \* position of _listen: "read" | "connecting"
    chunk,              \* the chunk the last reader.read returned
    handled,            \* the lines sent by _handle_message for that chunk
    read_flip,          \* history: flips with every reader.read that returns
    \* ---- IRCClient: moderator roster ----
    mod_list,           \* client._mod_list: rank -> list of usernames ({} at first)
    mod_query,          \* the username of the last _is_mod call (0 before any)
    mod_result,         \* what that call returned
    \* ---- Pyramid command ----
    py_args,            \* self.args of the last Pyramid command processed
    py_result           \* what its process() returned: the rows, in order

VARIABLES
    \* ---- IRCClient: the roster refresh loop ----
    mod_pc,             \* position of _fill_mod_list: "request" | "sleep" | "dead"
    mod_exc,            \* the exception the last poll raised ("none" if none)
    mod_src             \* history: body['chatters'] of the last poll that raised nothing

VARIABLES
    \* ---- TwitchWebhookServer: the externally reachable host ----
    external_host,      \* server._external_host ("None" until resolved)
    host_pc,            \* position of _set_external_host: "get" | "done" | "raised"
    hub_sent,           \* the running subscribe call has sent its hub requests
    hub_callbacks       \* history: the host part of hub.callback of every hub request sent

VARIABLES
    \* ---- TwitchWebhookServer, inbound POSTs handled concurrently ----
    h_pc,               \* per handler task, its position: "idle" | "callback" | "done"
    h_req,              \* per handler task, the POST it handles (or handled last)
    h_status            \* per handler task, the HTTP status it answered (0 while none)

postVars == <<notification_ids, post_pc, request, status, cbCount, log>>

subVars == <<pending_subscriptions, pending_cancellation, call, task_pc, task_result,
             warned, last_get, delivered>>

botVars == <<id_by_login, bot_pc, listed, issued, bot_error>>

tokVars == <<token, expires_at, tok_clock, tok_pc, tok_now, tok_reqs, tok_ret, tok_data,
             tok_before>>

bucketVars == <<rate, per, tokens, reset_date, b_clock, b_pc, wake_at, window_calls,
                slept>>

followVars == <<follows_id, follows, fw_pc, fw_resp, fw_sent, announced>>

ircVars == <<conn, out, listen_pc, chunk, handled, read_flip>>

modVars == <<mod_list, mod_query, mod_result, mod_pc, mod_exc, mod_src>>

\* The state of the hand-rolled chat client and of its plugins.
pyVars == <<py_args, py_result>>

clientVars == <<followVars, ircVars, modVars, pyVars>>

concVars == <<h_pc, h_req, h_status>>

hostVars == <<external_host, host_pc, hub_sent, hub_callbacks>>

vars == <<postVars, subVars, botVars, tokVars, bucketVars, clientVars, concVars, hostVars>>

\* What the actions of one component leave alone.
notPost == <<subVars, botVars, tokVars, bucketVars, clientVars, concVars, hostVars>>
notSub == <<postVars, botVars, tokVars, bucketVars, clientVars, concVars, hostVars>>
notBot == <<postVars, subVars, tokVars, bucketVars, clientVars, concVars, hostVars>>
notTok == <<postVars, subVars, botVars, bucketVars, clientVars, concVars, hostVars>>
notBucket == <<postVars, subVars, botVars, tokVars, clientVars, concVars, hostVars>>
webhookVars == <<postVars, subVars, botVars, tokVars, bucketVars, concVars, hostVars>>
notConc == <<post_pc, request, status, cbCount, subVars, botVars, tokVars, bucketVars,
             clientVars, hostVars>>
notBotHost == <<postVars, subVars, tokVars, bucketVars, clientVars, concVars>>
notFollow == <<webhookVars, conn, listen_pc, chunk, handled, read_flip, modVars, pyVars>>
notIrc == <<webhookVars, followVars, modVars, pyVars>>
notMod == <<webhookVars, followVars, ircVars, pyVars>>
notPy == <<webhookVars, followVars, ircVars, modVars>>

\* None of a date or of a number that is otherwise >= 0.
None == -1

Range(s) == {s[i] : i \in 1..Len(s)}

Values(f) == {f[k] : k \in DOMAIN f}

(***************************************************************************)
(* subscribe / cancel and the inbound GET handler.                         *)
(***************************************************************************)

\* Model bound: the topics (each with its own URI) a call may name.
NumTopics == 2

Topics == 1..NumTopics

\* hub.mode values of an inbound GET.
Modes == {"subscribe", "unsubscribe", "denied"}

NoCall == [kind |-> "none", topics |-> {}, pc |-> "none"]

NoGet == [status |-> 0, body |-> "none"]

\* self._pending_...[uri].set(); a missing key raises KeyError, which
\* _handle_get catches and logs.
SetNothing(table, t) == table
SetEvent(table, t) ==
    IF table[t] = "absent" THEN table ELSE [table EXCEPT ![t] = "set"]

\* bool(task) for task in tasks.values(): the values are the coroutine
\* objects built by self._subscribe(...) / self._cancel(...), and an object
\* without __bool__ / __len__ is true.
TaskTruthy(t) == TRUE

SubInit ==
    /\ pending_subscriptions = [t \in Topics |-> "absent"]
    /\ pending_cancellation = [t \in Topics |-> "absent"]
    /\ call = NoCall
    /\ task_pc = [t \in Topics |-> "none"]
    /\ task_result = [t \in Topics |-> FALSE]
    /\ warned = << >>
    /\ last_get = NoGet
    /\ delivered = [t \in Topics |-> FALSE]

TaskActive(t) == task_pc[t] \in {"created", "posting", "waiting", "timedout"}

\* No subscribe / cancel call, and no coroutine started by one, is running.
Quiescent ==
    /\ call.pc \notin {"header", "gather"}
    /\ \A t \in Topics : ~TaskActive(t)

\* subscribe(*topics) / cancel(*topics) is called; it first awaits
\* self._token_session.get_authorization_header().
CallStart(kind, ts) ==
    /\ Quiescent
    /\ ts # {}
    /\ call' = [kind |-> kind, topics |-> ts, pc |-> "header"]
    /\ task_pc' = [t \in Topics |-> "none"]
    /\ task_result' = [t \in Topics |-> FALSE]
    /\ delivered' = [t \in Topics |-> FALSE]
    /\ warned' = << >>
    /\ UNCHANGED <<pending_subscriptions, pending_cancellation, last_get>>

\* The token request fails: APIClient.request raises out of the call.
HeaderFail ==
    /\ call.pc = "header"
    /\ call' = [call EXCEPT !.pc = "raised"]
    /\ UNCHANGED <<pending_subscriptions, pending_cancellation, task_pc, task_result,
                   warned, last_get, delivered>>

\* The header is there: one coroutine per topic is built and handed to
\* asyncio.gather.
HeaderOk ==
    /\ call.pc = "header"
    /\ call' = [call EXCEPT !.pc = "gather"]
    /\ task_pc' = [t \in Topics |-> IF t \in call.topics THEN "created" ELSE "none"]
    /\ UNCHANGED <<pending_subscriptions, pending_cancellation, task_result,
                   warned, last_get, delivered>>

\* _subscribe / _cancel runs to its first suspension, inside self.post:
\* _subscribe has registered its Event by then, _cancel has not.
TaskStart(t) ==
    /\ task_pc[t] = "created"
    /\ task_pc' = [task_pc EXCEPT ![t] = "posting"]
    /\ pending_subscriptions' =
        IF call.kind = "subscribe"
        THEN [pending_subscriptions EXCEPT ![t] = "unset"]
        ELSE pending_subscriptions
    /\ UNCHANGED <<pending_cancellation, call, task_result, warned, last_get, delivered>>

\* The hub answers the POST with success; _cancel registers its Event now;
\* both start asyncio.wait_for(event.wait(), timeout=10.0).
TaskPostOk(t) ==
    /\ task_pc[t] = "posting"
    /\ task_pc' = [task_pc EXCEPT ![t] = "waiting"]
    /\ pending_cancellation' =
        IF call.kind = "cancel"
        THEN [pending_cancellation EXCEPT ![t] = "unset"]
        ELSE pending_cancellation
    /\ UNCHANGED <<pending_subscriptions, call, task_result, warned, last_get, delivered>>

\* The hub POST fails (4xx, 5xx, connection error): APIClient.request
\* raises out of the coroutine, and gather hands the first exception to the
\* awaiting subscribe / cancel; the other coroutines keep running.
TaskPostFail(t) ==
    /\ task_pc[t] = "posting"
    /\ task_pc' = [task_pc EXCEPT ![t] = "raised"]
    /\ call' = IF call.pc = "gather" THEN [call EXCEPT !.pc = "raised"] ELSE call
    /\ UNCHANGED <<pending_subscriptions, pending_cancellation, task_result,
                   warned, last_get, delivered>>

Pending(kind) == IF kind = "subscribe" THEN pending_subscriptions ELSE pending_cancellation

\* The Event was set: wait_for returns, success = True, the entry is popped.
TaskWake(t) ==
    /\ task_pc[t] = "waiting"
    /\ Pending(call.kind)[t] = "set"
    /\ task_pc' = [task_pc EXCEPT ![t] = "returned"]
    /\ task_result' = [task_result EXCEPT ![t] = TRUE]
    /\ IF call.kind = "subscribe"
       THEN /\ pending_subscriptions' = [pending_subscriptions EXCEPT ![t] = "absent"]
            /\ UNCHANGED pending_cancellation
       ELSE /\ pending_cancellation' = [pending_cancellation EXCEPT ![t] = "absent"]
            /\ UNCHANGED pending_subscriptions
    /\ UNCHANGED <<call, warned, last_get, delivered>>

\* The 10 seconds pass with the Event unset: wait_for cancels the wait.
TaskTimeout(t) ==
    /\ task_pc[t] = "waiting"
    /\ Pending(call.kind)[t] = "unset"
    /\ task_pc' = [task_pc EXCEPT ![t] = "timedout"]
    /\ UNCHANGED <<pending_subscriptions, pending_cancellation, call, task_result,
                   warned, last_get, delivered>>

\* The coroutine resumes with asyncio.TimeoutError: success stays False,
\* the entry is popped.
TaskTimeoutResume(t) ==
    /\ task_pc[t] = "timedout"
    /\ task_pc' = [task_pc EXCEPT ![t] = "returned"]
    /\ task_result' = [task_result EXCEPT ![t] = FALSE]
    /\ IF call.kind = "subscribe"
       THEN /\ pending_subscriptions' = [pending_subscriptions EXCEPT ![t] = "absent"]
            /\ UNCHANGED pending_cancellation
       ELSE /\ pending_cancellation' = [pending_cancellation EXCEPT ![t] = "absent"]
            /\ UNCHANGED pending_subscriptions
    /\ UNCHANGED <<call, warned, last_get, delivered>>

\* gather is done; subscribe / cancel compares len(tasks) with the number
\* of true values of tasks and logs the topics whose value is false.
GatherDone ==
    /\ call.pc = "gather"
    /\ \A t \in call.topics : task_pc[t] = "returned"
    /\ call' = [call EXCEPT !.pc = "returned"]
    /\ warned' =
        IF Cardinality(call.topics) # Cardinality({t \in call.topics : TaskTruthy(t)})
        THEN <<{t \in call.topics : ~TaskTruthy(t)}>>
        ELSE << >>
    /\ UNCHANGED <<pending_subscriptions, pending_cancellation, task_pc, task_result,
                   last_get, delivered>>

\* The values of hub.challenge; NoChallenge when the GET carries none.
Challenges == {"c1"}
NoChallenge == ""
GetInputs == Challenges \cup {NoChallenge}

\* What _handle_get answers: '200: OK' to a denial, the challenge to a GET
\* that carries one; otherwise the handler falls off its end, returns None
\* and sanic answers 500.
GetResponse(mode, challenge) ==
    IF mode = "denied" THEN [status |-> 200, body |-> "200: OK"]
    ELSE IF challenge # NoChallenge THEN [status |-> 200, body |-> challenge]
    ELSE [status |-> 500, body |-> "none"]

\* if mode == 'subscribe': ... elif mode == 'unsubscribe': ...
ResolvesAny(mode, kind) == TRUE
Resolves(mode, kind) == mode = kind

\* _handle_get: an inbound GET for the endpoint and query of topic t.
HandleGet(mode, t, challenge) ==
    /\ last_get' = GetResponse(mode, challenge)
    /\ IF mode = "denied"
       THEN UNCHANGED <<pending_subscriptions, pending_cancellation>>
       ELSE IF challenge # NoChallenge
       THEN /\ pending_subscriptions' =
                IF Resolves(mode, "subscribe") THEN SetEvent(pending_subscriptions, t)
                ELSE pending_subscriptions
            /\ pending_cancellation' =
                IF Resolves(mode, "unsubscribe") THEN SetEvent(pending_cancellation, t)
                ELSE pending_cancellation
       ELSE UNCHANGED <<pending_subscriptions, pending_cancellation>>
    /\ delivered' =
        IF /\ challenge # NoChallenge
           /\ mode = (IF call.kind = "subscribe" THEN "subscribe" ELSE "unsubscribe")
           /\ task_pc[t] \in {"posting", "waiting"}
        THEN [delivered EXCEPT ![t] = TRUE]
        ELSE delivered
    /\ UNCHANGED <<call, task_pc, task_result, warned>>

\* The steps of a running call and of its coroutines, and the inbound GETs.
CallSteps ==
    \/ HeaderFail /\ UNCHANGED notSub
    \/ HeaderOk /\ UNCHANGED notSub
    \/ \E t \in Topics : TaskStart(t) /\ UNCHANGED notSub
    \/ \E t \in Topics : TaskPostOk(t) /\ UNCHANGED notSub
    \/ \E t \in Topics : TaskPostFail(t) /\ UNCHANGED notSub
    \/ \E t \in Topics : TaskWake(t) /\ UNCHANGED notSub
    \/ \E t \in Topics : TaskTimeout(t) /\ UNCHANGED notSub
    \/ \E t \in Topics : TaskTimeoutResume(t) /\ UNCHANGED notSub
    \/ GatherDone /\ UNCHANGED notSub
    \/ \E mode \in Modes, t \in Topics, challenge \in GetInputs :
            HandleGet(mode, t, challenge) /\ UNCHANGED notSub

SubNext ==
    \/ \E kind \in {"subscribe", "cancel"}, ts \in SUBSET Topics :
            CallStart(kind, ts) /\ UNCHANGED notSub
    \/ CallSteps

\* The same, with calls that name one or two of the topics.
GetNext ==
    \/ \E kind \in {"subscribe", "cancel"}, ts \in SUBSET Topics :
            Cardinality(ts) <= 2 /\ CallStart(kind, ts) /\ UNCHANGED notSub
    \/ CallSteps

(***************************************************************************)
(* Topics, subscriptions and the subscription refresh loop of the bot.     *)
(***************************************************************************)

\* Model bounds: user ids, and subscriptions in one listing.
NumIds == 3
MaxSubs == 2

Ids == 1..NumIds

\* CONF.CHANNELS, in order, and the id get_users reports for each login.
Logins == <<"a", "b">>
UserId(login) == IF login = "a" THEN 1 ELSE 2

\* Topic.__slots__ of the subclasses, in declared order, and their ENDPOINT.
Slots(type) ==
    IF type = "UserFollows" THEN <<"from_id", "to_id">>
    ELSE <<"user_id">>
Endpoint(type) == IF type = "UserFollows" THEN "/users/follows" ELSE "/streams"
TopicTypes == {"StreamChanged", "UserFollows"}

\* A query string is a sequence of <<key, value>> pairs; dict(parse_qsl(q))
\* keeps the last value of a key.  A missing key reads as 0 (None).
QueryGet(q, key) ==
    LET hits == {i \in 1..Len(q) : q[i][1] = key}
    IN  IF hits = {} THEN 0
        ELSE q[CHOOSE i \in hits : \A j \in hits : j <= i][2]

\* Topic.__init__(**kwargs): params keeps the kwargs named by a slot.
TopicOf(type, q) ==
    [type |-> type,
     params |-> [k \in Range(Slots(type)) |-> QueryGet(q, k)]]

\* Topic.get_topic(url): the subclass whose /helix<ENDPOINT> is the path,
\* built from the query parameters.
GetTopic(url) ==
    LET type == CHOOSE c \in TopicTypes : "/helix" \o Endpoint(c) = url.path
    IN  TopicOf(type, url.query)

\* Topic.id: the value of the first slot, in declared order, that is set.
TopicId(topic) ==
    LET slots == Slots(topic.type)
        set == {i \in 1..Len(slots) : topic.params[slots[i]] # 0}
    IN  IF set = {} THEN 0
        ELSE topic.params[slots[CHOOSE i \in set : \A j \in set : i <= j]]

\* The topic URLs the hub may list: as_uri of a UserFollows topic carries
\* first=1, that of a StreamChanged topic only its user_id.
FollowsUrl(from, to) ==
    [path |-> "/helix/users/follows",
     query |-> <<<<"first", 1>>>>
               \o (IF from = 0 THEN << >> ELSE <<<<"from_id", from>>>>)
               \o (IF to = 0 THEN << >> ELSE <<<<"to_id", to>>>>)]
StreamsUrl(user) == [path |-> "/helix/streams", query |-> <<<<"user_id", user>>>>]

Urls ==
    ({FollowsUrl(f, t) : f \in 0..NumIds, t \in 0..NumIds} \ {FollowsUrl(0, 0)})
        \cup {StreamsUrl(u) : u \in Ids}

Listings == {l \in SUBSET Urls : Cardinality(l) <= MaxSubs}

\* except errors.HTTPException: the twitchio exception; APIError and its
\* subclasses (http.py) derive from Exception only.
Caught(exc) == exc = "twitchio.HTTPException"

ApiErrors == {"APIClientError", "APIServerError", "APIError"}

\* set(self._id_by_login.values()) - set(sub.topic.id for sub in subscriptions)
IdsToResub(ids, listing) ==
    {id_ \in ids : id_ # 0} \ {TopicId(GetTopic(url)) : url \in listing}

BotInit ==
    /\ id_by_login = [l \in Range(Logins) |-> 0]
    /\ bot_pc = "lookup"
    /\ listed = {}
    /\ issued = << >>
    /\ bot_error = "none"

\* The first login, in order, whose id is not cached (0 when all are).
NextLogin ==
    LET missing == {i \in 1..Len(Logins) : id_by_login[Logins[i]] = 0}
    IN  IF missing = {} THEN 0 ELSE CHOOSE i \in missing : \A j \in missing : i <= j

\* An exception leaves the try block: caught ones lead to the 10 s sleep,
\* any other one ends the task.
BotRaise(exc) ==
    /\ bot_pc' = IF Caught(exc) THEN "sleep10" ELSE "dead"
    /\ bot_error' = IF Caught(exc) THEN "none" ELSE exc

\* (await self.get_users(login))[0].id succeeds for the next uncached login.
LookupOk ==
    /\ bot_pc = "lookup" /\ NextLogin # 0
    /\ id_by_login' = [id_by_login EXCEPT ![Logins[NextLogin]] = UserId(Logins[NextLogin])]
    /\ UNCHANGED <<bot_pc, listed, issued, bot_error>>

\* get_users fails with the HTTP exception of twitchio.
LookupFail ==
    /\ bot_pc = "lookup" /\ NextLogin # 0
    /\ BotRaise("twitchio.HTTPException")
    /\ UNCHANGED <<id_by_login, listed, issued>>

\* list_subscriptions returns; the missing ids are computed and, if there
\* are any, subscribe is called with a UserFollows(to_id=...) for each.
ListOk(listing) ==
    /\ bot_pc = "lookup" /\ NextLogin = 0
    /\ listed' = listing
    /\ LET resub == IdsToResub(Values(id_by_login), listing) IN
        /\ issued' = IF resub # {} THEN <<resub>> ELSE << >>
        /\ bot_pc' = IF resub # {} THEN "subscribe" ELSE "sleep600"
    /\ UNCHANGED <<id_by_login, bot_error>>

\* list_subscriptions fails: the token request or the GET raises an
\* APIError out of APIClient.request.
ListFail(exc) ==
    /\ bot_pc = "lookup" /\ NextLogin = 0
    /\ BotRaise(exc)
    /\ listed' = {} /\ issued' = << >>
    /\ UNCHANGED id_by_login

\* subscribe returns.
SubscribeReturn ==
    /\ bot_pc = "subscribe"
    /\ bot_pc' = "sleep600"
    /\ UNCHANGED <<id_by_login, listed, issued, bot_error>>

\* subscribe fails: the token request or a hub POST raises an APIError.
SubscribeFail(exc) ==
    /\ bot_pc = "subscribe"
    /\ BotRaise(exc)
    /\ UNCHANGED <<id_by_login, listed, issued>>

\* asyncio.sleep(600) or asyncio.sleep(10) is over: the next iteration.
SleepDone ==
    /\ bot_pc \in {"sleep600", "sleep10"}
    /\ bot_pc' = "lookup"
    /\ listed' = {} /\ issued' = << >>
    /\ UNCHANGED <<id_by_login, bot_error>>

BotNext ==
    \/ LookupOk /\ UNCHANGED notBot
    \/ LookupFail /\ UNCHANGED notBot
    \/ \E listing \in Listings : ListOk(listing) /\ UNCHANGED notBot
    \/ \E exc \in ApiErrors : ListFail(exc) /\ UNCHANGED notBot
    \/ SubscribeReturn /\ UNCHANGED notBot
    \/ \E exc \in ApiErrors : SubscribeFail(exc) /\ UNCHANGED notBot
    \/ SleepDone /\ UNCHANGED notBot

(***************************************************************************)
(* The external host: _set_external_host runs as a task of its own, created *)
(* in TwitchWebhookServer.__init__, next to the refresh loop created in     *)
(* Bot.__init__.                                                            *)
(***************************************************************************)

NoHost == "None"
ResolvedHost == "http://ip:port"

HostInit ==
    /\ external_host = NoHost
    /\ host_pc = "get"
    /\ hub_sent = FALSE
    /\ hub_callbacks = {}

\* await self.get('https://api.ipify.org/') returns: the host is stored.
SetExternalHost ==
    /\ host_pc = "get"
    /\ external_host' = ResolvedHost
    /\ host_pc' = "done"
    /\ UNCHANGED <<hub_sent, hub_callbacks>>

\* The GET raises an APIError out of APIClient.request: the task ends and
\* the host stays None.
SetExternalHostFail ==
    /\ host_pc = "get"
    /\ host_pc' = "raised"
    /\ UNCHANGED <<external_host, hub_sent, hub_callbacks>>

\* Inside the subscribe call, once the authorization header is there: each
\* _subscribe builds its hub request, with hub.callback
\* f"{self._external_host}{topic.ENDPOINT}?..." from self._external_host as
\* it is at that moment, and POSTs it.
HubRequests ==
    /\ bot_pc = "subscribe" /\ ~hub_sent
    /\ hub_sent' = TRUE
    /\ hub_callbacks' = hub_callbacks \cup {external_host}
    /\ UNCHANGED <<external_host, host_pc>>
    /\ UNCHANGED botVars

\* subscribe returns, after its hub requests.
HostSubscribeReturn ==
    /\ hub_sent
    /\ SubscribeReturn
    /\ hub_sent' = FALSE
    /\ UNCHANGED <<external_host, host_pc, hub_callbacks>>

\* subscribe fails: the token request (before any hub request) or a hub
\* POST raises an APIError.
HostSubscribeFail(exc) ==
    /\ SubscribeFail(exc)
    /\ hub_sent' = FALSE
    /\ UNCHANGED <<external_host, host_pc, hub_callbacks>>

\* The refresh loop and the host resolution, interleaved.
HostNext ==
    \/ SetExternalHost /\ UNCHANGED botVars /\ UNCHANGED notBotHost
    \/ SetExternalHostFail /\ UNCHANGED botVars /\ UNCHANGED notBotHost
    \/ LookupOk /\ UNCHANGED hostVars /\ UNCHANGED notBotHost
    \/ LookupFail /\ UNCHANGED hostVars /\ UNCHANGED notBotHost
    \/ \E listing \in Listings : ListOk(listing) /\ UNCHANGED hostVars /\ UNCHANGED notBotHost
    \/ \E exc \in ApiErrors : ListFail(exc) /\ UNCHANGED hostVars /\ UNCHANGED notBotHost
    \/ HubRequests /\ UNCHANGED notBotHost
    \/ HostSubscribeReturn /\ UNCHANGED notBotHost
    \/ \E exc \in ApiErrors : HostSubscribeFail(exc) /\ UNCHANGED notBotHost
    \/ SleepDone /\ UNCHANGED hostVars /\ UNCHANGED notBotHost

(***************************************************************************)
(* TokenSession.get_token.                                                 *)
(***************************************************************************)

\* Model bounds: the clock, the lifetimes (expires_in) and the tokens the
\* token endpoint hands out.
MaxTime == 5
MaxLifetime == 2
NumTokens == 2

TokenData == [access_token : 1..NumTokens, expires_in : 1..MaxLifetime]

NoData == [access_token |-> 0, expires_in |-> 0]

\* need_refresh = True if not self._expires_at else now > self._expires_at
AlwaysRefresh(now, expiry) == TRUE
NeedRefresh(now, expiry) == IF expiry = None THEN TRUE ELSE now > expiry

TokInit ==
    /\ token = 0
    /\ expires_at = None
    /\ tok_clock = 0
    /\ tok_pc = "idle"
    /\ tok_now = None
    /\ tok_reqs = 0
    /\ tok_ret = 0
    /\ tok_data = NoData
    /\ tok_before = [token |-> 0, expires_at |-> None]

\* Time passes.
TokTick ==
    /\ tok_clock < MaxTime
    /\ tok_clock' = tok_clock + 1
    /\ UNCHANGED <<token, expires_at, tok_pc, tok_now, tok_reqs, tok_ret, tok_data,
                   tok_before>>

\* get_token is called: it returns the cached token, or sends the token
\* request and waits for the answer.
GetTokenCall ==
    /\ tok_pc = "idle"
    /\ tok_now' = tok_clock
    /\ tok_before' = [token |-> token, expires_at |-> expires_at]
    /\ IF NeedRefresh(tok_clock, expires_at)
       THEN /\ tok_pc' = "requesting" /\ tok_reqs' = 1 /\ tok_ret' = 0
       ELSE /\ tok_pc' = "idle" /\ tok_reqs' = 0 /\ tok_ret' = token
    /\ UNCHANGED <<token, expires_at, tok_clock, tok_data>>

\* The token endpoint answers: token and expiry are replaced.
TokenResponse(data) ==
    /\ tok_pc = "requesting"
    /\ tok_data' = data
    /\ token' = data.access_token
    /\ expires_at' = tok_now + data.expires_in
    /\ tok_ret' = data.access_token
    /\ tok_pc' = "idle"
    /\ UNCHANGED <<tok_clock, tok_now, tok_reqs, tok_before>>

\* The token request fails: APIClient.request raises out of get_token.
TokenRequestFail ==
    /\ tok_pc = "requesting"
    /\ tok_ret' = -1
    /\ tok_pc' = "idle"
    /\ UNCHANGED <<token, expires_at, tok_clock, tok_now, tok_reqs, tok_data, tok_before>>

TokNext ==
    \/ TokTick /\ UNCHANGED notTok
    \/ GetTokenCall /\ UNCHANGED notTok
    \/ \E data \in TokenData : TokenResponse(data) /\ UNCHANGED notTok
    \/ TokenRequestFail /\ UNCHANGED notTok

(***************************************************************************)
(* RateBucket.                                                             *)
(***************************************************************************)

\* Model bounds: capacity, window length in seconds, ticks per second,
\* the clock, and the tasks that call consume.
MaxRate == 2
MaxPer == 2
Res == 2
MaxClock == 14
NumCallers == 2

Callers == 1..NumCallers

\* math.ceil(ticks / Res): whole seconds, rounded up.
FloorDiv(a, b) == a \div b
CeilDiv(a, b) == IF a <= 0 THEN -((-a) \div b) ELSE (a + b - 1) \div b

\* if self._tokens > 0
HasTokenOrNone(tok) == tok >= 0
HasToken(tok) == tok > 0

\* consume() and _reset() up to the sleep or the return, from the given
\* token count and reset date at time clk: the new token count and reset
\* date, and the seconds to sleep (0: consume returned).
RECURSIVE Consume(_, _, _)
Consume(tok, rd, clk) ==
    LET rd1 == IF rd = None THEN clk + per * Res ELSE rd
        wait == CeilDiv(rd1 - clk, Res)
    IN  IF HasToken(tok) THEN [tokens |-> tok - 1, reset_date |-> rd1, sleep |-> 0]
        ELSE IF wait > 0 THEN [tokens |-> tok, reset_date |-> rd1, sleep |-> wait]
        ELSE Consume(rate, None, clk)

\* RateBucket(r, w)
BucketInit(r, w) ==
    /\ rate = r
    /\ per = w
    /\ tokens = rate
    /\ reset_date = None
    /\ b_clock = 0
    /\ b_pc = [c \in Callers |-> "idle"]
    /\ wake_at = [c \in Callers |-> 0]
    /\ window_calls = 0
    /\ slept = [c \in Callers |-> FALSE]

\* Time passes.
BucketTick ==
    /\ b_clock < MaxClock
    /\ b_clock' = b_clock + 1
    /\ UNCHANGED <<rate, per, tokens, reset_date, b_pc, wake_at, window_calls, slept>>

\* The bucket after caller c ran consume / _reset to outcome r.
BucketStep(c, r) ==
    /\ tokens' = r.tokens
    /\ reset_date' = r.reset_date
    /\ b_pc' = [b_pc EXCEPT ![c] = IF r.sleep > 0 THEN "sleeping" ELSE "idle"]
    /\ wake_at' = [wake_at EXCEPT ![c] = IF r.sleep > 0 THEN b_clock + r.sleep * Res ELSE 0]
    /\ window_calls' =
        IF r.sleep > 0
        THEN (IF reset_date' # reset_date THEN 0 ELSE window_calls)
        ELSE (IF reset_date' # reset_date THEN 1 ELSE window_calls + 1)
    /\ UNCHANGED <<rate, per, b_clock>>

\* Caller c calls consume (early enough for its window to end within the
\* clock of the model).
ConsumeCall(c) ==
    /\ b_pc[c] = "idle"
    /\ b_clock + (per + 1) * Res <= MaxClock
    /\ BucketStep(c, Consume(tokens, reset_date, b_clock))
    /\ slept' = [slept EXCEPT ![c] = b_pc'[c] = "sleeping"]

\* The sleep of caller c in _reset is over: tokens and reset date are
\* reset and consume runs again.
BucketWake(c) ==
    /\ b_pc[c] = "sleeping"
    /\ b_clock >= wake_at[c]
    /\ BucketStep(c, Consume(rate, None, b_clock))
    /\ UNCHANGED slept

\* One caller.
BucketNext ==
    \/ BucketTick /\ UNCHANGED notBucket
    \/ ConsumeCall(1) /\ UNCHANGED notBucket
    \/ BucketWake(1) /\ UNCHANGED notBucket

\* Several tasks share the bucket: any of them may call consume, and any
\* sleeping one may be resumed once its sleep is over.
BucketConcNext ==
    \/ BucketTick /\ UNCHANGED notBucket
    \/ \E c \in Callers : ConsumeCall(c) /\ UNCHANGED notBucket
    \/ \E c \in Callers : BucketWake(c) /\ UNCHANGED notBucket

(***************************************************************************)
(* Inbound POST: log_request -> verify_payload -> remove_duplicates ->     *)
(* _handle_post.                                                           *)
(***************************************************************************)

\* deque(maxlen=50)
CacheMax == 50

\* Stand-in for CONF.WEBHOOK_SECRET, and a secret the sender should not use.
Secret == 3

\* Model bounds: request bodies, accepted notifications, notification ids.
NumBodies == 2
MaxProcessed == 53

Bodies == 0..(NumBodies - 1)

\* hmac.new(secret, msg=body, digestmod=sha256).hexdigest(): a keyed digest,
\* collision free on the bodies and keys of the model.
Hmac(key, body) == (key * 131 + body * 31 + 7) % 251

\* A header value is a string: a sequence of symbols.  A well-formed
\* X-Hub-Signature is seven prefix symbols ("sha256=") followed by the hex
\* digest, which is kept as one symbol.
P == "p"
Q == "q"
Sha256Prefix == <<P, P, P, P, P, P, P>>
OtherPrefix == <<Q, Q, Q, Q, Q, Q, Q>>
ShortPrefix == <<P, P, P, P, P, P>>

Digests == {Hmac(Secret, b) : b \in Bodies} \cup {Hmac(Secret + 1, 0)}

\* request.headers.get('X-Hub-Signature', ''): an absent header reads as ''.
Headers ==
    {<< >>} \cup {Sha256Prefix \o <<d>> : d \in Digests}
            \cup {OtherPrefix \o <<Hmac(Secret, 0)>>, ShortPrefix \o <<Hmac(Secret, 0)>>}

\* value[7:]
Drop7(s) == SubSeq(s, 8, Len(s))

\* verify_payload: hmac.compare_digest(digest, header[7:])
VerifyPayload(req) == Drop7(req.sig) = <<Hmac(Secret, req.body)>>

\* remove_duplicates: notification_id in server._notification_ids
NeverInCache(id, cache) == FALSE
InCache(id, cache) == id \in Range(cache)

\* deque.append on a deque with maxlen: a full deque drops its oldest entry.
AppendKeepAll(cache, id) == Append(cache, id)
DequeAppend(cache, id) ==
    IF Len(cache) >= CacheMax THEN Append(Tail(cache), id) ELSE Append(cache, id)

\* Decorator order of _handle_post: what is answered before the route runs.
\*   "403" signature rejected, "204" duplicate, "route" the handler body runs.
GateDedupFirst(req, cache) ==
    IF InCache(req.id, cache) THEN "204"
    ELSE IF ~VerifyPayload(req) THEN "403"
    ELSE "route"
Gate(req, cache) ==
    IF ~VerifyPayload(req) THEN "403"
    ELSE IF InCache(req.id, cache) THEN "204"
    ELSE "route"

NoRequest == [id |-> -1, body |-> 0, sig |-> << >>]

\* Notification ids are opaque: they are named 0, 1, 2, ... in the order in
\* which they are first processed, so a request carries an id processed
\* before or the next unused one.  Of the ids processed before, a request
\* repeats one that left the cache, or the oldest, the middle or the newest
\* one in the cache.
NextFresh == Cardinality(Range(log))

RepeatIds ==
    (Range(log) \ Range(notification_ids)) \cup
    (IF notification_ids = << >> THEN {}
     ELSE {notification_ids[1],
           notification_ids[(Len(notification_ids) + 1) \div 2],
           notification_ids[Len(notification_ids)]})

Requests ==
    [id : {NextFresh} \cup RepeatIds, body : Bodies, sig : Headers]

PostInit ==
    /\ notification_ids = << >>
    /\ post_pc = "idle"
    /\ request = NoRequest
    /\ status = 0
    /\ cbCount = 0
    /\ log = << >>

\* A POST arrives while no other POST is being handled; runs up to the
\* first suspension (await self._callback(...)) or to the early response.
PostArrive(req) ==
    /\ post_pc # "callback"
    /\ Len(log) < MaxProcessed
    /\ request' = req
    /\ LET g == Gate(req, notification_ids) IN
        /\ status' = (CASE g = "403" -> 403 [] g = "204" -> 204 [] OTHER -> 0)
        /\ post_pc' = (IF g = "route" THEN "callback" ELSE "done")
        /\ cbCount' = (IF g = "route" THEN 1 ELSE 0)
        /\ log' = (IF g = "route" THEN Append(log, req.id) ELSE log)
    /\ UNCHANGED notification_ids

\* The callback returns: _handle_post answers 202 and remove_duplicates
\* appends the id.
PostCallbackReturn ==
    /\ post_pc = "callback"
    /\ status' = 202
    /\ notification_ids' = DequeAppend(notification_ids, request.id)
    /\ post_pc' = "done"
    /\ UNCHANGED <<request, cbCount, log>>

PostNext ==
    \/ \E req \in Requests : PostArrive(req) /\ UNCHANGED notPost
    \/ PostCallbackReturn /\ UNCHANGED notPost

(***************************************************************************)
(* Inbound POSTs handled concurrently: the server runs one handler task    *)
(* per request on one event loop; a handler is suspended while it awaits   *)
(* the notification callback, and other handlers run meanwhile.            *)
(***************************************************************************)

\* Model bounds: handler tasks alive at once, invocations of the callback.
NumHandlers == 2
MaxInvoked == 3
Handlers == 1..NumHandlers

ConcInit ==
    /\ h_pc = [h \in Handlers |-> "idle"]
    /\ h_req = [h \in Handlers |-> NoRequest]
    /\ h_status = [h \in Handlers |-> 0]

\* A POST arrives and task h handles it: verify_payload, remove_duplicates
\* and _handle_post run up to the first suspension (await
\* self._callback(...)) or to the early response.
ConcArrive(h, req) ==
    /\ h_pc[h] # "callback"
    /\ Len(log) < MaxInvoked
    /\ h_req' = [h_req EXCEPT ![h] = req]
    /\ LET g == Gate(req, notification_ids) IN
        /\ h_status' = [h_status EXCEPT ![h] =
                            CASE g = "403" -> 403 [] g = "204" -> 204 [] OTHER -> 0]
        /\ h_pc' = [h_pc EXCEPT ![h] = IF g = "route" THEN "callback" ELSE "done"]
        /\ log' = (IF g = "route" THEN Append(log, req.id) ELSE log)
    /\ UNCHANGED notification_ids

\* The callback of task h returns: _handle_post answers 202 and
\* remove_duplicates appends the id.
ConcCallbackReturn(h) ==
    /\ h_pc[h] = "callback"
    /\ h_status' = [h_status EXCEPT ![h] = 202]
    /\ notification_ids' = DequeAppend(notification_ids, h_req[h].id)
    /\ h_pc' = [h_pc EXCEPT ![h] = "done"]
    /\ UNCHANGED <<h_req, log>>

ConcNext ==
    \/ \E h \in Handlers, req \in Requests : ConcArrive(h, req) /\ UNCHANGED notConc
    \/ \E h \in Handlers : ConcCallbackReturn(h) /\ UNCHANGED notConc

(***************************************************************************)
(* IRCClient: _connect, _listen, _handle_message.                          *)
(***************************************************************************)

\* Model bounds: lines in one chunk, connections, outbound lines recorded
\* per connection.
MaxLines == 2
MaxConn == 2
MaxOut == 4

\* Text is a sequence of symbols.  CR and LF are the characters \r and \n;
\* any other symbol stands for the text of one line without its end:
\*   "PING"  Message.PING, the keep-alive literal
\*   "CMD"   a private message whose content invokes a registered command
\*   "CMD B" a private message that invokes another registered command
\*   "MSG"   a private message that invokes no command
\*   "TEXT"  any other server line
CR == "CR"
LF == "LF"
LineKinds == {"PING", "CMD", "CMD B", "MSG", "TEXT"}

\* The chunks reader.read returns while connected: complete lines, each
\* ended by \r\n.  The empty chunk is what a closed connection reads as.
RECURSIVE Concat(_)
Concat(ls) == IF ls = << >> THEN << >> ELSE <<Head(ls), CR, LF>> \o Concat(Tail(ls))
Chunks == {Concat(ls) : ls \in UNION {[1..n -> LineKinds] : n \in 1..MaxLines}}

\* str.rstrip(): the trailing whitespace is removed.
RECURSIVE RStrip(_)
RStrip(str) ==
    IF str # << >> /\ str[Len(str)] \in {CR, LF}
    THEN RStrip(SubSeq(str, 1, Len(str) - 1))
    ELSE str

\* str.split('\n'): the pieces between the \n characters.
RECURSIVE Split(_)
Split(str) ==
    LET lfs == {i \in 1..Len(str) : str[i] = LF}
    IN  IF lfs = {} THEN <<str>>
        ELSE LET i == CHOOSE k \in lfs : \A j \in lfs : k <= j
             IN  <<SubSeq(str, 1, i - 1)>> \o Split(SubSeq(str, i + 1, Len(str)))

\* Message.is_ping: byte == Message.PING
IsPing(raw) == raw = <<"PING">>

\* Message.is_message: re.match anchors the pattern at the start only, and
\* the content group (.*) takes a trailing \r.
IsMessage(raw) == raw # << >> /\ raw[1] \in {"CMD", "CMD B", "MSG"}

\* Command.is_command(message), and the parts command.process() returns.
IsCommand(raw) == raw[1] \in {"CMD", "CMD B"}
CommandResult(raw) ==
    IF raw[1] = "CMD" THEN <<"REPLY 1", "REPLY 2">> ELSE <<"REPLY B1", "REPLY B2">>

\* The lines _handle_message sends for one raw message.
LineReply(raw) ==
    IF IsPing(raw) THEN <<"PONG">>
    ELSE IF IsMessage(raw) /\ IsCommand(raw) THEN CommandResult(raw)
    ELSE << >>

\* _handle_message: the lines sent for a received text, in order.
RECURSIVE RepliesOfLastFirst(_)
RepliesOfLastFirst(raws) ==
    IF raws = << >> THEN << >>
    ELSE RepliesOfLastFirst(Tail(raws)) \o LineReply(Head(raws))
RECURSIVE RepliesOf(_)
RepliesOf(raws) ==
    IF raws = << >> THEN << >> ELSE LineReply(Head(raws)) \o RepliesOf(Tail(raws))
HandleMessage(received) == RepliesOf(Split(received))

\* _connect writes these three lines, in this order.
HandshakeNickFirst == <<"NICK", "PASS", "JOIN">>
Handshake == <<"PASS", "NICK", "JOIN">>

\* self.writer.write(line), repeatedly: the lines are added to the stream.
Written(stream, lines) ==
    LET all == stream \o lines
    IN  IF Len(all) <= MaxOut THEN all ELSE SubSeq(all, 1, MaxOut)

IrcInit ==
    /\ conn = 1
    /\ out = Handshake
    /\ listen_pc = "read"
    /\ chunk = << >>
    /\ handled = << >>
    /\ read_flip = FALSE

\* reader.read returns data: it is stripped and handled, every reply being
\* written before the next read.
ReadData(c) ==
    /\ listen_pc = "read"
    /\ chunk' = c
    /\ read_flip' = ~read_flip
    /\ handled' = HandleMessage(RStrip(c))
    /\ out' = Written(out, handled')
    /\ UNCHANGED <<conn, listen_pc>>

\* reader.read returns b'': the loop logs the error and awaits
\* asyncio.open_connection inside _connect.
ReadEmpty ==
    /\ listen_pc = "read"
    /\ conn < MaxConn
    /\ chunk' = << >>
    /\ read_flip' = ~read_flip
    /\ handled' = << >>
    /\ listen_pc' = "connecting"
    /\ UNCHANGED <<conn, out>>

\* open_connection returns: reader and writer are replaced and the three
\* handshake lines are written to the new writer.
ConnectDone ==
    /\ listen_pc = "connecting"
    /\ conn' = conn + 1
    /\ out' = Written(<< >>, Handshake)
    /\ listen_pc' = "read"
    /\ UNCHANGED <<chunk, handled, read_flip>>

\* Another task (an event plugin) calls irc_client.send_message: the line
\* goes to whatever self.writer is at that moment.
PluginSend ==
    /\ out' = Written(out, <<"ANNOUNCE">>)
    /\ UNCHANGED <<conn, listen_pc, chunk, handled, read_flip>>

IrcNext ==
    \/ \E c \in Chunks : ReadData(c) /\ UNCHANGED notIrc
    \/ ReadEmpty /\ UNCHANGED notIrc
    \/ ConnectDone /\ UNCHANGED notIrc
    \/ PluginSend /\ UNCHANGED notIrc

(***************************************************************************)
(* Follows.listen: the follower polling event.                             *)
(***************************************************************************)

\* Event.INIT_DATE, the start time of the bot, on the scale of the dates.
INIT_DATE == 1

\* Model bound: the followers (display names) the API may report.
NumNames == 2

\* A follow entry is {'name': ..., 'date': ...}; iso8601.parse_date(date) is
\* a time before, at or after INIT_DATE.
Dates == (INIT_DATE - 1)..(INIT_DATE + 1)
FollowEntry == [name : 1..NumNames, date : Dates]

\* The follow lists the API may return: each follower is listed once.  The
\* lists are taken in one order of the followers; the order of a list only
\* decides the order of the names in the announcement.
FollowLists ==
    UNION {{l \in [1..n -> FollowEntry] :
                \A i, j \in 1..n : i < j => l[i].name < l[j].name} : n \in 0..NumNames}

\* iso8601.parse_date(f['date']) > Follows.INIT_DATE and f not in Follows.follows
IsNewOrAtStart(f, cache) == f.date >= INIT_DATE /\ f \notin Range(cache)
IsNew(f, cache) == f.date > INIT_DATE /\ f \notin Range(cache)

\* [f for f in follows if ...]: the list comprehension keeps the order.
NewFollows(l, cache) == SelectSeq(l, LAMBDA f : IsNew(f, cache))

NoFollows == [ok |-> FALSE, list |-> << >>]

FollowInit ==
    /\ follows_id = 0
    /\ follows = << >>
    /\ fw_pc = "get_id"
    /\ fw_resp = NoFollows
    /\ fw_sent = << >>
    /\ announced = {}

\* if not Follows.id: await Follows._get_id(): the id is stored, or the
\* body cannot be parsed and the id stays None; with an id the step is
\* skipped.
GetId(ok) ==
    /\ fw_pc = "get_id"
    /\ follows_id' = IF follows_id = 0 /\ ok THEN 1 ELSE follows_id
    /\ fw_pc' = "get_follows"
    /\ fw_sent' = << >>
    /\ UNCHANGED <<follows, fw_resp, out, announced>>

\* _get_follows returns a list: the new follows are computed and, if there
\* are any, announced with one send_message, and the cache is replaced.
GetFollowsOk(l) ==
    /\ fw_pc = "get_follows"
    /\ follows_id # 0
    /\ fw_resp' = [ok |-> TRUE, list |-> l]
    /\ LET new_follows == NewFollows(l, follows) IN
        IF new_follows # << >>
        THEN /\ fw_sent' = Append(fw_sent, new_follows)
             /\ announced' = announced \cup Range(new_follows)
             /\ out' = Written(out, <<"ANNOUNCE">>)
             /\ follows' = l
        ELSE UNCHANGED <<fw_sent, announced, out, follows>>
    /\ fw_pc' = "sleep"
    /\ UNCHANGED follows_id

\* _get_follows cannot parse the body (always so without a channel id) and
\* returns None: the cycle is skipped.
GetFollowsFail ==
    /\ fw_pc = "get_follows"
    /\ fw_resp' = NoFollows
    /\ fw_pc' = "sleep"
    /\ UNCHANGED <<follows_id, follows, fw_sent, out, announced>>

\* asyncio.sleep(10) is over: the next cycle.
FollowSleepDone ==
    /\ fw_pc = "sleep"
    /\ fw_pc' = "get_id"
    /\ UNCHANGED <<follows_id, follows, fw_resp, fw_sent, out, announced>>

FollowNext ==
    \/ \E ok \in BOOLEAN : GetId(ok) /\ UNCHANGED notFollow
    \/ \E l \in FollowLists : GetFollowsOk(l) /\ UNCHANGED notFollow
    \/ GetFollowsFail /\ UNCHANGED notFollow
    \/ FollowSleepDone /\ UNCHANGED notFollow

(***************************************************************************)
(* IRCClient: _fill_mod_list and _is_mod.                                  *)
(***************************************************************************)

\* Model bound: the usernames in the chat.
NumUsers == 2

Users == 1..NumUsers

Ranks == {"moderators", "global_mods", "admins", "staff"}

\* Python values with their type: a username is a str, a rank list a list
\* (its members are kept as a set).  x == y is False for values of
\* different types.
Str(u) == [type |-> "str", val |-> u]
List(us) == [type |-> "list", val |-> us]
PyEq(x, y) == x.type = y.type /\ x.val = y.val

\* The rosters the chatters endpoint may report.
Rosters == [Ranks -> {List(us) : us \in SUBSET Users}]

\* itertools.chain(*iterables) yields the items of each of its arguments,
\* and this call has one argument: the values view of the roster.  So it
\* yields the rank lists themselves.
Chain(roster) == {roster[r] : r \in DOMAIN roster}

\* username in itertools.chain(self._mod_list.values())
IsMod(username, roster) == \E item \in Chain(roster) : PyEq(item, Str(username))

ModInit ==
    /\ mod_list = << >>
    /\ mod_query = 0
    /\ mod_result = FALSE
    /\ mod_pc = "request"
    /\ mod_exc = "none"
    /\ mod_src = << >>

\* _fill_mod_list: the chatters request answers with all four rank lists.
FillModList(roster) ==
    /\ mod_list' = roster
    /\ mod_src' = roster
    /\ UNCHANGED <<mod_query, mod_result, mod_pc, mod_exc>>

\* _is_mod(username)
IsModCall(username) ==
    /\ mod_query' = username
    /\ mod_result' = IsMod(username, mod_list)
    /\ UNCHANGED <<mod_list, mod_pc, mod_exc, mod_src>>

ModNext ==
    \/ \E roster \in Rosters : FillModList(roster) /\ UNCHANGED notMod
    \/ \E username \in Users : IsModCall(username) /\ UNCHANGED notMod

\* The bodies utils.request may hand to _fill_mod_list: a dict whose
\* 'chatters' dict has any of the four rank keys and of the other keys of
\* the endpoint (here "viewers"), each with a list; or None, a dict without
\* 'chatters', or a dict whose 'chatters' is a list.
ChatterKeys == Ranks \cup {"viewers"}
ChatterLists == {List({}), List({1})}
ChatterMaps == UNION {[K -> ChatterLists] : K \in SUBSET ChatterKeys}
NoChatters == [k \in {} |-> List({})]
PollBodies ==
    {[kind |-> "dict", chatters |-> c] : c \in ChatterMaps} \cup
    {[kind |-> k, chatters |-> NoChatters] : k \in {"None", "no chatters", "chatters list"}}

\* What evaluating {rank: body['chatters'][rank] for rank in [...]} raises.
Raises(body) ==
    CASE body.kind = "None" -> "TypeError"
      [] body.kind = "no chatters" -> "KeyError"
      [] body.kind = "chatters list" -> "TypeError"
      [] OTHER -> IF Ranks \subseteq DOMAIN body.chatters THEN "none" ELSE "KeyError"

\* except KeyError / except (ValueError, TypeError)
ModCaughtKeyErrorOnly == {"KeyError"}
ModCaught == {"KeyError", "ValueError", "TypeError"}

\* One poll of _fill_mod_list: the dict comprehension is evaluated and, if
\* it raised nothing, assigned; a caught exception is logged; then the loop
\* sleeps.  Any other exception ends the task.
ModPoll(body) ==
    /\ mod_pc = "request"
    /\ mod_exc' = Raises(body)
    /\ IF mod_exc' = "none"
       THEN /\ mod_list' = [rank \in Ranks |-> body.chatters[rank]]
            /\ mod_src' = body.chatters
            /\ mod_pc' = "sleep"
       ELSE /\ UNCHANGED <<mod_list, mod_src>>
            /\ mod_pc' = IF mod_exc' \in ModCaught THEN "sleep" ELSE "dead"
    /\ UNCHANGED <<mod_query, mod_result>>

\* asyncio.sleep(10) is over: the next poll.
ModSleepDone ==
    /\ mod_pc = "sleep"
    /\ mod_pc' = "request"
    /\ UNCHANGED <<mod_list, mod_query, mod_result, mod_exc, mod_src>>

ModPollNext ==
    \/ \E body \in PollBodies : ModPoll(body) /\ UNCHANGED notMod
    \/ ModSleepDone /\ UNCHANGED notMod

(***************************************************************************)
(* The pyramid command.                                                    *)
(***************************************************************************)

\* Pyramid.MAX_SIZE
MAX_SIZE == 5

\* cfg.DEFAULT_PYRAMID_SIZE and cfg.DEFAULT_PYRAMID_SYMBOL
DEFAULT_PYRAMID_SIZE == 3
DEFAULT_PYRAMID_SYMBOL == "LUL"

\* Model bound: the largest size a chatter asks for.
MaxSize == 10

\* The decimal numerals of 0, 1, 2, ...: the all-digit arguments.
Numerals == <<"0", "1", "2", "3", "4", "5", "6", "7", "8", "9", "10", "11", "12">>

\* str.isdigit() and int(str)
IsDigit(str) == str \in Range(Numerals)
IntOf(str) == (CHOOSE i \in 1..Len(Numerals) : Numerals[i] = str) - 1

\* The arguments a chatter may give: a symbol or an all-digit size.
ArgValues == {"LUL", "x"} \cup {Numerals[n + 1] : n \in 0..MaxSize}
ArgLists == UNION {[1..n -> ArgValues] : n \in 0..2}

\* Pyramid._size_threshold
SizeNoThreshold(size) == IntOf(size)
SizeThreshold(size) == IF IntOf(size) < MAX_SIZE THEN IntOf(size) ELSE MAX_SIZE

\* " ".join([symbol] * width)
RECURSIVE Block(_, _)
Block(symbol, width) ==
    IF width <= 0 THEN << >>
    ELSE IF width = 1 THEN <<symbol>>
    ELSE <<symbol, " ">> \o Block(symbol, width - 1)

\* The size and the symbol process() settles on for its arguments.
PyramidSize(args) ==
    IF Len(args) = 1 /\ IsDigit(args[1]) THEN SizeThreshold(args[1])
    ELSE IF Len(args) = 2 /\ IsDigit(args[2]) THEN SizeThreshold(args[2])
    ELSE DEFAULT_PYRAMID_SIZE
PyramidSymbol(args) ==
    IF Len(args) = 1 /\ ~IsDigit(args[1]) THEN args[1]
    ELSE IF Len(args) = 2 THEN args[1]
    ELSE DEFAULT_PYRAMID_SYMBOL

\* Pyramid.process: one block per i in range(2 * size - 1).
Process(args) ==
    LET size == PyramidSize(args)
        symbol == PyramidSymbol(args)
    IN  [k \in 1..(2 * size - 1) |->
            Block(symbol, IF k - 1 < size THEN k ELSE 2 * size - k)]

PyInit ==
    /\ py_args = << >>
    /\ py_result = << >>

\* A pyramid command with the given arguments is processed.
PyramidProcess(args) ==
    /\ py_args' = args
    /\ py_result' = Process(args)

PyNext == \E args \in ArgLists : PyramidProcess(args) /\ UNCHANGED notPy

\* The state of the hand-rolled client after start-up.
ClientInit == FollowInit /\ IrcInit /\ ModInit /\ PyInit

\* The state after construction of the server.
Init ==
    /\ PostInit /\ SubInit /\ BotInit /\ TokInit /\ BucketInit(MaxRate, MaxPer)
    /\ ClientInit /\ ConcInit /\ HostInit

\* The same, with a bucket of any capacity and window.
InitAnyBucket ==
    /\ PostInit /\ SubInit /\ BotInit /\ TokInit /\ ClientInit /\ ConcInit /\ HostInit
    /\ \E r \in 1..MaxRate, w \in 1..MaxPer : BucketInit(r, w)

SpecPost == Init /\ [][PostNext]_vars

SpecPostConc == Init /\ [][ConcNext]_vars

SpecSub == Init /\ [][SubNext]_vars

SpecGet == Init /\ [][GetNext]_vars

SpecBot == Init /\ [][BotNext]_vars

SpecHost == Init /\ [][HostNext]_vars

SpecToken == Init /\ [][TokNext]_vars

\* Time passes, and the event loop resumes a task whose sleep is over.
SpecBucket ==
    /\ InitAnyBucket
    /\ [][BucketNext]_vars
    /\ WF_vars(BucketTick /\ UNCHANGED notBucket)
    /\ WF_vars(BucketWake(1) /\ UNCHANGED notBucket)

SpecBucketConc == InitAnyBucket /\ [][BucketConcNext]_vars

SpecFollow == Init /\ [][FollowNext]_vars

SpecMod == Init /\ [][ModNext]_vars

SpecModPoll == Init /\ [][ModPollNext]_vars

SpecPyramid == Init /\ [][PyNext]_vars

\* A connection attempt is eventually answered.
SpecIrc ==
    /\ Init
    /\ [][IrcNext]_vars
    /\ WF_vars(ConnectDone /\ UNCHANGED notIrc)

(***************************************************************************)
(* Claims about subscribe / cancel.                                        *)
(***************************************************************************)

\* C4: a _subscribe coroutine that returns yields success exactly when a
\* challenge GET with hub.mode=subscribe for its topic's URI was handled
\* after the pending signal was registered (the hub POST sent) and before
\* the 10-second wait expired; with no such challenge it yields failure.
C4_SuccessIffChallenged ==
    \A t \in Topics :
        (call.kind = "subscribe" /\ task_pc[t] = "returned")
            => (task_result[t] <=> delivered[t])

\* C4 witness: two topics were subscribed in one call; the challenge came
\* for one only, which succeeded, and the other timed out and failed.
C4_Witness ==
    /\ call.kind = "subscribe"
    /\ \E t, u \in Topics :
        /\ task_pc[t] = "returned" /\ task_result[t] /\ delivered[t]
        /\ task_pc[u] = "returned" /\ ~task_result[u] /\ ~delivered[u]

\* C5: whenever no subscribe / cancel call is running, both pending tables
\* are empty: every registered entry was removed when its call completed,
\* also when the hub POST failed.
C5_PendingRemoved ==
    Quiescent =>
        \A t \in Topics :
            pending_subscriptions[t] = "absent" /\ pending_cancellation[t] = "absent"

\* C6: when subscribe returns and the subscribe of at least one topic
\* failed, a warning was logged that names exactly the failed topics.
C6_WarnsFailedTopics ==
    (call.kind = "subscribe" /\ call.pc = "returned"
        /\ \E t \in call.topics : ~task_result[t])
    => warned = <<{t \in call.topics : ~task_result[t]}>>

\* C18: a GET with hub.mode=denied is answered 200 and changes no pending
\* signal; a GET with a challenge and another mode is answered with the
\* challenge value as its body, whether or not an entry is pending for the
\* topic, and sets only the pending signal of its own mode and topic: a
\* subscribe challenge never resolves a pending cancellation, nor the
\* reverse, nor a signal of another topic.
C18_GetHandling ==
    [][ \A mode \in Modes, challenge \in GetInputs :
          last_get' = GetResponse(mode, challenge) =>
          \A t \in Topics :
            HandleGet(mode, t, challenge) =>
                /\ mode = "denied" =>
                    /\ last_get'.status = 200
                    /\ pending_subscriptions' = pending_subscriptions
                    /\ pending_cancellation' = pending_cancellation
                /\ (mode # "denied" /\ challenge \in Challenges) =>
                    /\ last_get' = [status |-> 200, body |-> challenge]
                    /\ \A u \in Topics \ {t} :
                        /\ pending_subscriptions'[u] = pending_subscriptions[u]
                        /\ pending_cancellation'[u] = pending_cancellation[u]
                    /\ mode = "subscribe" =>
                        /\ pending_cancellation' = pending_cancellation
                        /\ pending_subscriptions'[t] =
                            IF pending_subscriptions[t] = "absent" THEN "absent" ELSE "set"
                    /\ mode = "unsubscribe" =>
                        /\ pending_subscriptions' = pending_subscriptions
                        /\ pending_cancellation'[t] =
                            IF pending_cancellation[t] = "absent" THEN "absent" ELSE "set"
      ]_vars

\* C18 witness: a challenge was echoed and set the pending subscription of
\* one topic while a cancellation of the same topic and a subscription of
\* another topic stayed pending and unset.
C18_Witness ==
    /\ last_get = [status |-> 200, body |-> "c1"]
    /\ \E t, u \in Topics :
        /\ t # u
        /\ pending_subscriptions[t] = "set" /\ pending_cancellation[t] = "unset"
        /\ pending_subscriptions[u] = "unset"

\* C19: cancel has the step order of subscribe: the pending signal of the
\* topic is registered before the hub request is POSTed, so an unsubscribe
\* challenge handled at any moment after the hub request was sent and
\* before the 10-second timeout, also while the POST still awaits its
\* response, makes the cancel of that topic succeed.
C19_CancelLikeSubscribe ==
    \A t \in Topics :
        call.kind = "cancel" =>
            /\ task_pc[t] \in {"posting", "waiting"} => pending_cancellation[t] # "absent"
            /\ (task_pc[t] = "returned" /\ delivered[t]) => task_result[t]

\* C20: when two correctly signed POSTs with the same Twitch-Notification-ID
\* are handled concurrently, the second arriving while the first is
\* suspended inside the notification callback, the callback is invoked at
\* most once for that id: no two handler tasks are inside the callback
\* for the same id.
C20_ConcurrentDuplicateOnce ==
    \A h1, h2 \in Handlers :
        (h1 # h2 /\ h_pc[h1] = "callback" /\ h_pc[h2] = "callback")
            => h_req[h1].id # h_req[h2].id

(***************************************************************************)
(* Claims about the subscription refresh loop.                             *)
(***************************************************************************)

\* The listing holds a user-follows subscription that targets channel c.
FollowsTargeting(c, listing) ==
    \E url \in listing :
        /\ url.path = "/helix/users/follows"
        /\ \E i \in 1..Len(url.query) : url.query[i] = <<"to_id", c>>

\* C7: in every iteration, subscribe is issued for UserFollows(to_id=c) for
\* exactly the configured channel ids c for which the listing holds no
\* user-follows subscription targeting c.
C7_ResubExactlyMissing ==
    bot_pc \in {"subscribe", "sleep600"} =>
        LET missing == {c \in Values(id_by_login) : ~FollowsTargeting(c, listed)}
        IN  issued = IF missing = {} THEN << >> ELSE <<missing>>

\* C8: the refresh loop is never ended by an HTTP failure (4xx, 5xx or
\* connection error) of the id lookup, list_subscriptions or subscribe.
C8_LoopSurvivesHttpFailure ==
    ~(bot_pc = "dead" /\ bot_error \in ApiErrors \cup {"twitchio.HTTPException"})

\* The topic has this parameter, with a value.
HasParam(topic, k) == k \in DOMAIN topic.params /\ topic.params[k] # 0

\* C17: the identity id of a topic is the value of the first parameter, in
\* the declared slot order of its type, that has a value, and is absent
\* when no declared parameter is set; a UserFollows topic built with a to_id
\* only and one built with a from_id and that to_id both have the to_id as
\* their identity id.
C17_TopicIdentity ==
    \A url \in listed :
        LET topic == GetTopic(url)
            slots == Slots(topic.type)
        IN  /\ (\A i \in 1..Len(slots) : ~HasParam(topic, slots[i])) => TopicId(topic) = 0
            /\ \A i \in 1..Len(slots) :
                    (HasParam(topic, slots[i]) /\ \A j \in 1..(i - 1) : ~HasParam(topic, slots[j]))
                        => TopicId(topic) = topic.params[slots[i]]
            /\ (topic.type = "UserFollows" /\ HasParam(topic, "to_id"))
                    => TopicId(topic) = topic.params["to_id"]

\* C25: under every interleaving of the external-host resolution task and
\* the refresh loop, no hub subscribe or unsubscribe request is sent whose
\* hub.callback was built while the external host was still unresolved.
C25_CallbackAfterHost == NoHost \notin hub_callbacks

(***************************************************************************)
(* Claims about the token session.                                         *)
(***************************************************************************)

\* C9: for get_token calls made one after another, the first call sends
\* one token request; a call made before the cached expiry sends none and
\* returns the cached token; a call made after the expiry sends exactly one
\* request, and its answer replaces the cached token and sets the expiry to
\* the time of that call plus the returned lifetime.
C9_TokenCache ==
    [][ /\ (tok_pc = "idle" /\ tok_clock' = tok_clock) =>
            /\ tok_now' = tok_clock
            /\ expires_at = None => (tok_reqs' = 1 /\ tok_pc' = "requesting")
            /\ (expires_at # None /\ tok_clock < expires_at) =>
                /\ tok_reqs' = 0 /\ tok_pc' = "idle"
                /\ tok_ret' = token /\ token' = token /\ expires_at' = expires_at
            /\ (expires_at # None /\ tok_clock > expires_at) =>
                (tok_reqs' = 1 /\ tok_pc' = "requesting")
        /\ (tok_pc = "requesting" /\ tok_clock' = tok_clock) =>
            /\ tok_reqs' = 1 /\ tok_pc' = "idle"
            /\ \/ tok_ret' = -1 /\ token' = token /\ expires_at' = expires_at
               \/ /\ tok_data' \in TokenData
                  /\ token' = tok_data'.access_token /\ tok_ret' = token'
                  /\ expires_at' = tok_now + tok_data'.expires_in
      ]_vars

\* C9 witness: a call made after the expiry of the cached token, answered
\* while the clock moved on, replaced the token and the expiry.
C9_Witness ==
    /\ tok_pc = "idle" /\ tok_reqs = 1
    /\ tok_before.expires_at # None /\ tok_now > tok_before.expires_at
    /\ tok_ret = token /\ token # tok_before.token
    /\ expires_at = tok_now + tok_data.expires_in
    /\ tok_clock > tok_now

(***************************************************************************)
(* Claims about the rate bucket.                                           *)
(***************************************************************************)

\* C10: one caller.  The calls of a window are those returned since its
\* reset date was set (the call that waited for a reset is the first call
\* of the window it opens).  While fewer than rate calls of the window have
\* returned, a consume call returns without waiting and tokens is rate
\* minus their number; a call made after that returns only once the reset
\* date has been reached, with the tokens reset to rate and one of them
\* taken; and every consume call eventually returns.
C10_BucketWindow ==
    /\ [](reset_date # None => tokens = rate - window_calls)
    /\ [][ /\ (b_pc[1] = "idle" /\ b_clock' = b_clock /\ window_calls < rate) =>
                (b_pc'[1] = "idle" /\ window_calls' = window_calls + 1)
           /\ (b_pc[1] = "idle" /\ b_clock' = b_clock /\ window_calls >= rate) =>
                \/ b_pc'[1] = "sleeping" /\ wake_at'[1] >= reset_date
                                         /\ b_clock < reset_date
                \/ b_pc'[1] = "idle" /\ b_clock >= reset_date
                                     /\ tokens' = rate - 1 /\ window_calls' = 1
           /\ (b_pc[1] = "sleeping" /\ b_pc'[1] = "idle") =>
                /\ b_clock >= reset_date /\ reset_date # None
                /\ tokens' = rate - 1 /\ window_calls' = 1
         ]_vars
    /\ (b_pc[1] = "sleeping") ~> (b_pc[1] = "idle")

\* C10 witness: after rate calls of a window, the next call slept until
\* the reset date and returned with one token of the new window taken.
C10_Witness ==
    /\ b_pc[1] = "idle" /\ slept[1]
    /\ window_calls = 1 /\ tokens = rate - 1
    /\ rate = MaxRate
    /\ reset_date = b_clock + per * Res

\* C11: with several tasks calling consume concurrently, in any
\* interleaving, the token count stays within 0 <= tokens <= rate.
C11_TokensInRange == 0 <= tokens /\ tokens <= rate

\* C11 witness: two callers found the bucket empty and slept at the same
\* time; both were resumed, each resetting the tokens, and both returned.
C11_Witness ==
    /\ \A c \in {1, 2} : slept[c] /\ b_pc[c] = "idle"
    /\ rate = MaxRate /\ tokens = rate - 1
    /\ window_calls = 1

\* C21: with several tasks calling consume on one bucket, in any
\* interleaving, the tokens are reset to full capacity only when the window
\* in force has elapsed (its reset date is reached), hence at most once per
\* window, and no more than rate consume calls return within the window.
C21_ResetOncePerWindow ==
    /\ [](window_calls <= rate)
    /\ [][ \A c \in Callers :
              BucketWake(c) => (reset_date # None /\ b_clock >= reset_date) ]_vars

(***************************************************************************)
(* Claims about the follower polling event.                                *)
(***************************************************************************)

\* The entries of list l dated strictly after the start of the bot that are
\* not in list cache.
NewEntries(l, cache) == {f \in Range(l) : f.date > INIT_DATE /\ f \notin Range(cache)}

\* C12: in a polling cycle whose follow-list request succeeds, the
\* announced entries are exactly those dated strictly after the start of
\* the bot and absent from the cache; if there are any, one announcement is
\* sent and the cache becomes the full current list, otherwise nothing is
\* sent and the cache is unchanged.  So a poll that returns the list of the
\* previous poll announces nothing, and no entry dated at or before the
\* start is ever announced.
C12_AnnouncesNewFollows ==
    [][ (fw_pc = "get_follows" /\ fw_resp'.ok) =>
            /\ fw_pc' = "sleep"
            /\ IF NewEntries(fw_resp'.list, follows) # {}
               THEN /\ Len(fw_sent') = 1
                    /\ Range(fw_sent'[1]) = NewEntries(fw_resp'.list, follows)
                    /\ follows' = fw_resp'.list
               ELSE /\ fw_sent' = << >>
                    /\ follows' = follows
            /\ fw_resp' = fw_resp => fw_sent' = << >>
            /\ \A i \in 1..Len(fw_sent') :
                    \A f \in Range(fw_sent'[i]) : f.date > INIT_DATE
      ]_vars

\* C12 witness: a poll listed a new follower next to a cached one and one
\* dated at the start of the bot; only the new one was announced, once.
C12_Witness ==
    /\ fw_pc = "sleep" /\ Len(fw_sent) = 1 /\ Len(fw_sent[1]) = 1
    /\ follows = fw_resp.list /\ Len(follows) >= 2
    /\ \E f \in Range(follows) : f.date = INIT_DATE

\* C22: when the channel id is unresolved and the user lookup fails in a
\* cycle, that cycle makes no follow-list API call and sends no
\* announcement and leaves the cached id and follower list unchanged; the
\* follow-list API is only ever called with a resolved channel id, and a
\* resolved id is never looked up (or changed) again.
C22_NoPollWithoutId ==
    [][ /\ (fw_pc = "get_id" /\ fw_pc' = "get_follows" /\ follows_id' = 0) =>
                (follows' = follows /\ fw_sent' = << >> /\ out' = out)
        /\ (fw_pc = "get_follows" /\ fw_pc' = "sleep") =>
                (follows_id # 0 /\ follows_id' = follows_id)
        /\ follows_id # 0 => follows_id' = follows_id
      ]_vars

\* C26: over any sequence of successful follow-list responses, a follow
\* entry (same follower name and same follow date) is included in at most
\* one announcement: no announcement holds an entry announced before.
C26_AnnouncedOnce ==
    [][ Len(fw_sent') > Len(fw_sent) =>
            Range(fw_sent'[Len(fw_sent')]) \cap announced = {} ]_vars

(***************************************************************************)
(* Claims about the chat client.                                           *)
(***************************************************************************)

\* The number of entries of sequence q that equal x.
CountOf(x, q) == Cardinality({i \in 1..Len(q) : q[i] = x})

\* C13: for every keep-alive ping line of a received chunk the client
\* sends exactly one pong line, wherever the ping sits among the
\* \r\n-terminated lines of the chunk.
C13_OnePongPerPing == CountOf("PONG", handled) = CountOf("PING", chunk)

\* The concatenation of the sequences of qs, in order.
RECURSIVE Flatten(_)
Flatten(qs) == IF qs = << >> THEN << >> ELSE Head(qs) \o Flatten(Tail(qs))

\* C23: on one connection the inbound lines are dispatched in the order
\* received and the reply lines of a command are sent in the order it
\* produced them: the reply lines sent for a chunk are those of its first
\* command line, in produced order, then those of its second command line,
\* and so on; and they are written after every line written before.
C23_RepliesInOrder ==
    /\ [](LET lines == Split(RStrip(chunk))
              commands == SelectSeq(lines, LAMBDA raw : IsMessage(raw) /\ IsCommand(raw))
              replies == SelectSeq(handled, LAMBDA x : x # "PONG")
          IN  replies = Flatten([k \in 1..Len(commands) |-> CommandResult(commands[k])]))
    /\ [][ read_flip' # read_flip =>
                /\ Len(out') >= Len(out) /\ SubSeq(out', 1, Len(out)) = out
                /\ LET n == Len(out') - Len(out)
                   IN  n <= Len(handled') /\ SubSeq(out', Len(out) + 1, Len(out')) = SubSeq(handled', 1, n)
                /\ (Len(out') < MaxOut => Len(out') = Len(out) + Len(handled'))
          ]_vars

\* C23 witness: a chunk held the second command and then the first one;
\* the replies went out in that order, after the handshake.
C23_Witness ==
    /\ handled = <<"REPLY B1", "REPLY B2", "REPLY 1", "REPLY 2">>
    /\ out = Written(Handshake, handled)
    /\ Len(out) > Len(Handshake)

C15_ModIffListed ==
    mod_query # 0 =>
        (mod_result <=> \E r \in DOMAIN mod_list : mod_query \in mod_list[r].val)

(***************************************************************************)
(* Claims about the pyramid command.                                       *)
(***************************************************************************)

\* The last command had an all-digit size argument (its only or its second
\* argument), asking for a size of at least 1.
HasSizeArg ==
    /\ py_args # << >>
    /\ py_args[Len(py_args)] \in {Numerals[n + 1] : n \in 1..MaxSize}

\* The row is the symbol w times, with one space between two symbols.
IsRow(row, symbol, w) ==
    /\ Len(row) = 2 * w - 1
    /\ \A j \in 1..Len(row) : row[j] = IF j % 2 = 1 THEN symbol ELSE " "

\* C24: in every reachable state the roster is empty (no poll has succeeded
\* yet) or holds exactly the four rank lists moderators, global_mods, admins
\* and staff, all taken from one single successful response; a poll whose
\* body misses a field or is malformed leaves the roster as it was, and the
\* refresh loop keeps running after it.
C24_RosterWhole ==
    /\ [](\/ DOMAIN mod_list = {} /\ DOMAIN mod_src = {}
          \/ /\ DOMAIN mod_list = Ranks
             /\ \A rank \in Ranks : mod_list[rank] = mod_src[rank])
    /\ [](mod_pc # "dead")
    /\ [][ (mod_pc = "request" /\ mod_pc' # "request" /\ mod_exc' # "none") =>
                (mod_list' = mod_list /\ mod_pc' = "sleep") ]_vars

\* C24 witness: after a successful poll, whose body had more than the four
\* rank lists, a poll with a malformed body was survived and the roster
\* kept.
C24_Witness ==
    /\ mod_pc = "sleep" /\ mod_exc = "TypeError"
    /\ DOMAIN mod_list = Ranks /\ DOMAIN mod_src = ChatterKeys
    /\ mod_list["staff"] # mod_list["admins"]

\* C16: for any symbol and any all-digit size argument n >= 1, the pyramid
\* has exactly 2*s-1 rows with s = min(n, 5); row i (from 0) is the symbol
\* i+1 times for i < s and 2*s-(i+1) times otherwise, joined by single
\* spaces, and no row is wider than 5.
C16_PyramidRows ==
    HasSizeArg =>
        LET n == CHOOSE m \in 1..MaxSize : Numerals[m + 1] = py_args[Len(py_args)]
            s == IF n < 5 THEN n ELSE 5
            symbol == IF Len(py_args) = 2 THEN py_args[1] ELSE DEFAULT_PYRAMID_SYMBOL
        IN  /\ Len(py_result) = 2 * s - 1
            /\ \A i \in 0..(2 * s - 2) :
                    LET w == IF i < s THEN i + 1 ELSE 2 * s - (i + 1)
                    IN  IsRow(py_result[i + 1], symbol, w) /\ w <= 5

\* C16 witness: a pyramid of size 10 was asked for and has 9 rows, the
\* middle one of 5 symbols.
C16_Witness ==
    /\ py_args = <<"x", "10">>
    /\ Len(py_result) = 9
    /\ py_result[5] = <<"x", " ", "x", " ", "x", " ", "x", " ", "x">>
    /\ py_result[9] = <<"x">>

(***************************************************************************)
(* Claims about the inbound POST handler.                                  *)
(***************************************************************************)

\* The request carries the signature Twitch computes: "sha256=" (any seven
\* symbols) followed by the HMAC of its body under the configured secret.
WellSigned(req) == Len(req.sig) = 8 /\ req.sig[8] = Hmac(Secret, req.body)

\* C1: for correctly signed POSTs handled one after another, a POST whose
\* id is in the dedup cache is answered 204 without invoking the callback
\* and without touching the cache; a POST whose id is not in the cache
\* invokes the callback exactly once, is answered 202 when the callback
\* returns, and its id is then the newest entry of the cache.
C1_DedupSequential ==
    [][ /\ (post_pc # "callback" /\ WellSigned(request')
                /\ request'.id \in Range(notification_ids))
            => /\ status' = 204 /\ post_pc' = "done" /\ cbCount' = 0
               /\ log' = log /\ notification_ids' = notification_ids
        /\ (post_pc # "callback" /\ WellSigned(request')
                /\ request'.id \notin Range(notification_ids))
            => /\ post_pc' = "callback" /\ cbCount' = 1
               /\ log' = Append(log, request'.id)
               /\ notification_ids' = notification_ids
        /\ post_pc = "callback"
            => /\ post_pc' = "done" /\ status' = 202 /\ cbCount' = 1
               /\ request' = request /\ log' = log
               /\ notification_ids' # << >>
               /\ notification_ids'[Len(notification_ids')] = request.id
      ]_vars

\* C1 witness: a correctly signed repeat of the id accepted just before was
\* answered 204 with no callback.
C1_Witness ==
    /\ post_pc = "done" /\ status = 204 /\ cbCount = 0
    /\ WellSigned(request)
    /\ notification_ids # << >>
    /\ notification_ids[Len(notification_ids)] = request.id
    /\ log # << >> /\ log[Len(log)] = request.id

\* The ids processed before the POST at hand.
LogBefore == IF cbCount = 1 THEN SubSeq(log, 1, Len(log) - 1) ELSE log

\* The distinct ids processed after the last processing of id in history h.
OthersSince(id, h) ==
    LET last == CHOOSE i \in 1..Len(h) : h[i] = id /\ \A j \in (i + 1)..Len(h) : h[j] # id
    IN  {h[j] : j \in (last + 1)..Len(h)}

\* C2: the dedup cache never holds more than 50 ids and evicts oldest
\* first: a correctly signed repeat of an id X processed before is rejected
\* (204, no callback) while at most 49 distinct other ids were processed
\* since, and is processed again (callback, 202) once 50 were.
C2_FifoCapacity ==
    /\ Len(notification_ids) <= CacheMax
    /\ (post_pc # "idle" /\ WellSigned(request) /\ request.id \in Range(LogBefore))
        => LET n == Cardinality(OthersSince(request.id, LogBefore)) IN
            /\ n <= CacheMax - 1 => (status = 204 /\ cbCount = 0)
            /\ n >= CacheMax => (cbCount = 1 /\ (post_pc = "done" => status = 202))

\* C2 witness: an id that was processed, then evicted by 50 others, was
\* processed a second time.
C2_Witness ==
    /\ post_pc = "done" /\ status = 202 /\ cbCount = 1
    /\ request.id \in Range(LogBefore)
    /\ Cardinality(OthersSince(request.id, LogBefore)) >= CacheMax
    /\ Len(notification_ids) = CacheMax

\* C3: a POST whose signature header is absent or is not the HMAC of its
\* body is answered 403, the callback is not invoked and the dedup cache is
\* unchanged, also when its notification id is in the cache.
C3_BadSignature ==
    [][ (post_pc # "callback" /\ ~WellSigned(request'))
            => /\ status' = 403 /\ post_pc' = "done" /\ cbCount' = 0
               /\ log' = log /\ notification_ids' = notification_ids
      ]_vars

\* C3 witness: a badly signed POST carrying a cached id was answered 403.
C3_Witness ==
    /\ post_pc = "done" /\ status = 403 /\ cbCount = 0
    /\ ~WellSigned(request)
    /\ request.id \in Range(notification_ids)

====
